---- MODULE Spec2Model ----
(***************************************************************************)
(* NonMinX / NonMaxX (src/src/lib.rs): integer types that cannot be their  *)
(* minimum / maximum value, stored as a NonZeroX holding value ^ mask.     *)
(*                                                                         *)
(* The 24 instantiations of impl_nontype! differ only in the primitive's   *)
(* width, its signedness and the mask (MIN or MAX).  The model keeps       *)
(* signedness and mask as they are and scales the width down to            *)
(* 2..MaxBits bits; integers are two's complement of that width.           *)
(*                                                                         *)
(* The state is a small client program: one instantiation `ty`, two local  *)
(* variables of type Option<$struct>, and the value returned by the last   *)
(* call.  `origin` is a history variable: the raw value and the            *)
(* constructor each held instance was built from.                          *)
(***************************************************************************)
EXTENDS Integers, Sequences, FiniteSets, TLC

VARIABLES ty, slot, origin, ret, pc

vars == <<ty, slot, origin, ret, pc>>

\* Largest primitive width of the model, in bits.
MaxBits == 3

Widths == 2..MaxBits

Slots == {"x", "y"}

RECURSIVE Pow2R(_)
Pow2R(n) == IF n = 0 THEN 1 ELSE 2 * Pow2R(n - 1)

\* 2^n for the widths in use, tabulated once.
Pow2Tab == [n \in 0..MaxBits |-> Pow2R(n)]

Pow2(n) == Pow2Tab[n]

\* Option<T>: None is the empty sequence, Some(v) the one-element sequence.
None == <<>>

Some(v) == <<v>>

unwrap(o) == o[1]

(***************************************************************************)
(* The primitive types $prim and their MIN / MAX.                          *)
(***************************************************************************)
Types == [bits : Widths, signed : BOOLEAN, sentinel : {"MIN", "MAX"}]

MIN(t) == IF t.signed THEN 0 - Pow2(t.bits - 1) ELSE 0

MAX(t) == IF t.signed THEN Pow2(t.bits - 1) - 1 ELSE Pow2(t.bits) - 1

Prim(t) == MIN(t)..MAX(t)

mask_always_max(t) == MAX(t)

mask_always_min(t) == MIN(t)

\* $mask of the instantiation: $prim::MAX for NonMax*, $prim::MIN for NonMin*.
mask(t) == IF t.sentinel = "MAX" THEN MAX(t) ELSE MIN(t)

\* The bit pattern of v (two's complement) and the value of a bit pattern.
ToBits(t, v) == v % Pow2(t.bits)

FromBits(t, b) == IF t.signed /\ b >= Pow2(t.bits - 1) THEN b - Pow2(t.bits) ELSE b

RECURSIVE XorBits(_, _, _)
XorBits(a, b, n) ==
    IF n = 0 THEN 0
    ELSE (((a % 2) + (b % 2)) % 2) + 2 * XorBits(a \div 2, b \div 2, n - 1)

\* Bitwise xor of two bit patterns, tabulated once (patterns narrower than
\* MaxBits have zero high bits, and so has their xor).
XorTab ==
    [a \in 0..(Pow2R(MaxBits) - 1), b \in 0..(Pow2R(MaxBits) - 1) |-> XorBits(a, b, MaxBits)]

\* a ^ b on $prim.
BitXor(t, a, b) == FromBits(t, XorTab[ToBits(t, a), ToBits(t, b)])

(***************************************************************************)
(* core::num::NonZeroX, as the crate uses it.                              *)
(***************************************************************************)
\* $nonzero::new_unchecked(n): no check; n = 0 is undefined behaviour.
NonZero_new_unchecked(n) == n

\* $nonzero::get
NonZero_get(nz) == nz

\* $nonzero::new(n): None exactly when n is zero.
NonZero_new(n) == IF n # 0 THEN Some(NonZero_new_unchecked(n)) ELSE None

(***************************************************************************)
(* impl $struct                                                            *)
(***************************************************************************)
\* a | b on $prim (a + b = (a ^ b) + 2 (a & b), a | b = (a ^ b) + (a & b)).
BitOr(t, a, b) ==
    FromBits(t, (ToBits(t, a) + ToBits(t, b) + XorTab[ToBits(t, a), ToBits(t, b)]) \div 2)

new_unchecked_noxor(t, value) == [value |-> NonZero_new_unchecked(value)]

new_unchecked_or(t, value) == [value |-> NonZero_new_unchecked(BitOr(t, value, mask(t)))]

\* pub unsafe fn new_unchecked(value: $prim) -> Self
new_unchecked(t, value) == [value |-> NonZero_new_unchecked(BitXor(t, value, mask(t)))]

new_nocheck(t, value) == Some(new_unchecked(t, value))

new_checks_zero(t, value) == IF value # 0 THEN Some(new_unchecked(t, value)) ELSE None

\* pub fn new(value: $prim) -> Option<Self>
new(t, value) == IF value # mask(t) THEN Some(new_unchecked(t, value)) ELSE None

get_noxor(t, self) == NonZero_get(self.value)

\* pub fn get(self) -> $prim
get(t, self) == BitXor(t, NonZero_get(self.value), mask(t))

\* impl From<$struct> for $prim
from(t, nontype) == get(t, nontype)

(***************************************************************************)
(* #[derive(Eq, PartialEq, Ord, PartialOrd)]: field-wise on `value`, a     *)
(* NonZeroX, which compares as the $prim it holds.                         *)
(***************************************************************************)
eq(a, b) == a.value = b.value

cmp(a, b) ==
    IF a.value < b.value THEN "Less"
    ELSE IF a.value = b.value THEN "Equal" ELSE "Greater"

partial_cmp(a, b) == Some(cmp(a, b))

lt(a, b) == partial_cmp(a, b) = Some("Less")

le(a, b) == partial_cmp(a, b) \in {Some("Less"), Some("Equal")}

gt(a, b) == partial_cmp(a, b) = Some("Greater")

ge(a, b) == partial_cmp(a, b) \in {Some("Greater"), Some("Equal")}

Rels == {"lt", "le", "gt", "ge"}

derived(rel, a, b) ==
    CASE rel = "lt" -> lt(a, b)
      [] rel = "le" -> le(a, b)
      [] rel = "gt" -> gt(a, b)
      [] rel = "ge" -> ge(a, b)

(***************************************************************************)
(* The client program.                                                     *)
(***************************************************************************)
Made(raw, via) == Some([raw |-> raw, via |-> via])

Init ==
    /\ ty \in Types
    /\ slot = [s \in Slots |-> None]
    /\ origin = [s \in Slots |-> None]
    /\ ret = [op |-> "init", arg |-> <<>>, out |-> None]
    /\ pc = "running"

\* s = $struct::new(v)
New(s, v) ==
    /\ pc = "running"
    /\ LET r == new(ty, v) IN
        /\ slot' = [slot EXCEPT ![s] = r]
        /\ origin' = [origin EXCEPT ![s] = IF r = None THEN None ELSE Made(v, "new")]
        /\ ret' = [op |-> "new", arg |-> <<v>>, out |-> r]
    /\ UNCHANGED <<ty, pc>>

\* s = Some(unsafe { $struct::new_unchecked(v) }), the precondition v != $mask
\* holding.
NewUnchecked(s, v) ==
    /\ pc = "running"
    /\ v # mask(ty)
    /\ LET r == new_unchecked(ty, v) IN
        /\ slot' = [slot EXCEPT ![s] = Some(r)]
        /\ origin' = [origin EXCEPT ![s] = Made(v, "new_unchecked")]
        /\ ret' = [op |-> "new_unchecked", arg |-> <<v>>, out |-> r]
    /\ UNCHANGED <<ty, pc>>

\* unsafe { $struct::new_unchecked($mask) }: NonZeroX::new_unchecked(0) is
\* undefined behaviour.  A build without precondition checks hands back the
\* zero storage; a build with them (debug assertions) aborts in
\* NonZeroX::new_unchecked and the call returns nothing.
NewUncheckedUB(s) ==
    /\ pc = "running"
    /\ \/ /\ slot' = [slot EXCEPT ![s] = Some(new_unchecked(ty, mask(ty)))]
          /\ origin' = [origin EXCEPT ![s] = Made(mask(ty), "new_unchecked")]
          /\ ret' = [op |-> "new_unchecked", arg |-> <<mask(ty)>>,
                     out |-> new_unchecked(ty, mask(ty))]
          /\ UNCHANGED <<ty, pc>>
       \/ /\ pc' = "aborted"
          /\ ret' = [op |-> "new_unchecked", arg |-> <<mask(ty)>>, out |-> None]
          /\ UNCHANGED <<ty, slot, origin>>

\* slot[s].unwrap().get()
Get(s) ==
    /\ pc = "running"
    /\ slot[s] # None
    /\ ret' = [op |-> "get", arg |-> <<s>>, out |-> get(ty, unwrap(slot[s]))]
    /\ UNCHANGED <<ty, slot, origin, pc>>

\* $prim::from(slot[s].unwrap())
From(s) ==
    /\ pc = "running"
    /\ slot[s] # None
    /\ ret' = [op |-> "from", arg |-> <<s>>, out |-> from(ty, unwrap(slot[s]))]
    /\ UNCHANGED <<ty, slot, origin, pc>>

\* d = s (the type is Copy)
Copy(s, d) ==
    /\ pc = "running"
    /\ s # d
    /\ slot[s] # None
    /\ slot' = [slot EXCEPT ![d] = slot[s]]
    /\ origin' = [origin EXCEPT ![d] = origin[s]]
    /\ ret' = [op |-> "copy", arg |-> <<s, d>>, out |-> slot[s]]
    /\ UNCHANGED <<ty, pc>>

\* x == y on the two instances
Eq ==
    /\ pc = "running"
    /\ slot["x"] # None /\ slot["y"] # None
    /\ ret' = [op |-> "eq", arg |-> <<>>, out |-> eq(unwrap(slot["x"]), unwrap(slot["y"]))]
    /\ UNCHANGED <<ty, slot, origin, pc>>

\* x < y, x <= y, x > y, x >= y
PartialOrd(rel) ==
    /\ pc = "running"
    /\ slot["x"] # None /\ slot["y"] # None
    /\ ret' = [op |-> rel, arg |-> <<>>,
               out |-> derived(rel, unwrap(slot["x"]), unwrap(slot["y"]))]
    /\ UNCHANGED <<ty, slot, origin, pc>>

\* x.cmp(&y)
Cmp ==
    /\ pc = "running"
    /\ slot["x"] # None /\ slot["y"] # None
    /\ ret' = [op |-> "cmp", arg |-> <<>>, out |-> cmp(unwrap(slot["x"]), unwrap(slot["y"]))]
    /\ UNCHANGED <<ty, slot, origin, pc>>

Next ==
    \/ \E s \in Slots, v \in Prim(ty) : New(s, v)
    \/ \E s \in Slots, v \in Prim(ty) : NewUnchecked(s, v)
    \/ \E s \in Slots : NewUncheckedUB(s)
    \/ \E s \in Slots : Get(s)
    \/ \E s \in Slots : From(s)
    \/ \E s, d \in Slots : Copy(s, d)
    \/ Eq
    \/ \E rel \in Rels : PartialOrd(rel)
    \/ Cmp

Spec == Init /\ [][Next]_vars

(***************************************************************************)
(* Properties.                                                             *)
(***************************************************************************)
\* The value an instantiation excludes, read off its name: NonMax* excludes
\* $prim::MAX, NonMin* excludes $prim::MIN.
Sentinel(t) == IF t.sentinel = "MAX" THEN MAX(t) ELSE MIN(t)

\* <, <=, >, >= and cmp on two decoded $prim values.
prim_rel(rel, u, v) ==
    CASE rel = "lt" -> u < v
      [] rel = "le" -> u <= v
      [] rel = "gt" -> u > v
      [] rel = "ge" -> u >= v

prim_cmp(u, v) == IF u < v THEN "Less" ELSE IF u = v THEN "Equal" ELSE "Greater"

Held(s) == slot[s] # None

Raw(s) == origin[s][1].raw

Via(s) == origin[s][1].via

Storage(s) == unwrap(slot[s]).value

BothNew == Held("x") /\ Held("y") /\ Via("x") = "new" /\ Via("y") = "new"

\* The value next to the sentinel, with width wraparound: MAX + 1 wraps to
\* MIN, MIN - 1 wraps to MAX.
Wrapped(t) == IF t.sentinel = "MAX" THEN MIN(t) ELSE MAX(t)

\* C1: new(v) is None exactly when v is the type's sentinel; otherwise it is
\* Some(x) and x.get() returns v (also for the values next to the sentinel).
C1_NewRoundTrip ==
    /\ ret.op = "new" =>
        (ret.out = None) <=> (ret.arg[1] = Sentinel(ty))
    /\ (ret.op = "get" /\ Via(ret.arg[1]) = "new") => ret.out = Raw(ret.arg[1])

\* C1 witness: get() on an instance made by new from the wrapped-around
\* neighbour of the sentinel has just returned that value.
C1_Witness ==
    /\ ty.bits = MaxBits
    /\ ret.op = "get"
    /\ Via(ret.arg[1]) = "new"
    /\ Raw(ret.arg[1]) = Wrapped(ty)
    /\ ret.out = Wrapped(ty)

\* C2: the derived <, <=, >, >= and cmp on two instances made by new agree
\* with the same comparison of their decoded values.
C2_OrderingAsDecoded ==
    /\ (ret.op \in Rels /\ BothNew) =>
        ret.out = prim_rel(ret.op, get(ty, unwrap(slot["x"])), get(ty, unwrap(slot["y"])))
    /\ (ret.op = "cmp" /\ BothNew) =>
        ret.out = prim_cmp(get(ty, unwrap(slot["x"])), get(ty, unwrap(slot["y"])))

\* C3: every held instance obtained through new has storage
\* raw XOR sentinel, which is not zero; the storage of any held instance is
\* zero exactly when its logical value is the sentinel.
C3_StorageInvariant ==
    \A s \in Slots :
        Held(s) =>
            /\ Via(s) = "new" =>
                /\ Storage(s) = BitXor(ty, Raw(s), Sentinel(ty))
                /\ Storage(s) # 0
            /\ (Storage(s) = 0) <=> (Raw(s) = Sentinel(ty))

\* C3 witness: an instance made by new survived a copy and a read.
C3_Witness ==
    /\ ret.op \in {"get", "from"}
    /\ BothNew
    /\ Raw("x") = Raw("y")
    /\ Storage("x") = Storage("y")
    /\ Raw("x") = Wrapped(ty)

\* C4: == on two instances made by new is true exactly when their raw values
\* are equal, that is when their get() results are equal.
C4_EqualityAsDecoded ==
    (ret.op = "eq" /\ BothNew) =>
        /\ ret.out = (Raw("x") = Raw("y"))
        /\ ret.out = (get(ty, unwrap(slot["x"])) = get(ty, unwrap(slot["y"])))

\* C4 witness: == has just returned false for two distinct raw values.
C4_Witness ==
    /\ ret.op = "eq"
    /\ BothNew
    /\ Raw("x") # Raw("y")
    /\ ret.out = FALSE

\* C5: for a raw value other than the sentinel, get() on the instance made
\* by new_unchecked returns it, and that instance equals the one new makes.
C5_UncheckedAgrees ==
    /\ (ret.op = "get" /\ Via(ret.arg[1]) = "new_unchecked"
            /\ Raw(ret.arg[1]) # Sentinel(ty)) =>
        ret.out = Raw(ret.arg[1])
    /\ (ret.op = "eq" /\ Via("x") # Via("y") /\ Raw("x") = Raw("y")
            /\ Raw("x") # Sentinel(ty)) =>
        /\ ret.out = TRUE
        /\ slot["x"] = slot["y"]

\* C5 witness: == has just compared new(v) with new_unchecked(v).
C5_Witness ==
    /\ ret.op = "eq"
    /\ Via("x") = "new"
    /\ Via("y") = "new_unchecked"
    /\ Raw("x") = Raw("y")
    /\ ret.out = TRUE

\* What new would return if it went through $nonzero::new(value ^ $mask).
new_via_nonzero(t, value) ==
    LET nz == NonZero_new(BitXor(t, value, Sentinel(t)))
    IN  IF nz = None THEN None ELSE Some([value |-> unwrap(nz)])

\* C7: v is the sentinel exactly when v XOR sentinel is zero, and new(v)
\* returns what NonZero::new(v XOR sentinel), wrapped in the type, returns.
C7_ChecksNeverDiverge ==
    ret.op = "new" =>
        /\ (ret.arg[1] = Sentinel(ty)) <=> (BitXor(ty, ret.arg[1], Sentinel(ty)) = 0)
        /\ ret.out = new_via_nonzero(ty, ret.arg[1])

\* C7 witness: new has just refused the sentinel of a signed type.
C7_Witness ==
    /\ ret.op = "new"
    /\ ty.signed
    /\ ret.arg[1] = Sentinel(ty)
    /\ ret.out = None

UnsignedMax(t) == ~t.signed /\ t.sentinel = "MAX"

UnsignedMin(t) == ~t.signed /\ t.sentinel = "MIN"

\* C9: for the unsigned NonMax types the storage is MAX - value and the
\* derived < is the reverse of < on the raw values.
C9_UnsignedMaxReversed ==
    UnsignedMax(ty) =>
        /\ \A s \in Slots : (Held(s) /\ Via(s) = "new") => Storage(s) = MAX(ty) - Raw(s)
        /\ (ret.op = "lt" /\ BothNew) => (ret.out = (Raw("x") > Raw("y")))

\* C9 witness: on an unsigned NonMax type, new(a) < new(b) is true with a > b.
C9_Witness ==
    /\ UnsignedMax(ty)
    /\ ret.op = "lt"
    /\ BothNew
    /\ Raw("x") > Raw("y")
    /\ ret.out = TRUE

\* C10: for the unsigned NonMin types the storage is the value itself and
\* the derived < coincides with < on the raw values.
C10_UnsignedMinPreserved ==
    UnsignedMin(ty) =>
        /\ \A s \in Slots : (Held(s) /\ Via(s) = "new") => Storage(s) = Raw(s)
        /\ (ret.op = "lt" /\ BothNew) => (ret.out = (Raw("x") < Raw("y")))

\* C10 witness: on an unsigned NonMin type, new(a) < new(b) is true with a < b.
C10_Witness ==
    /\ UnsignedMin(ty)
    /\ ret.op = "lt"
    /\ BothNew
    /\ Raw("x") < Raw("y")
    /\ ret.out = TRUE

====
